---- MODULE Spec2Model ----
(***************************************************************************)
(* Model of setup.py: the CMakeBuild command (run / build_extension) that  *)
(* probes for cmake and then configures and builds every extension with   *)
(* two external cmake invocations.                                        *)
(*                                                                         *)
(* Python str values are TLA+ strings (Len, \o and SubSeq work on them),  *)
(* Python lists are sequences, os.environ is a function from variable     *)
(* names to strings, the file system is the set of directories that exist.*)
(***************************************************************************)
EXTENDS Integers, Sequences, FiniteSets, TLC

VARIABLES
    extensions,   \* self.extensions: sequence of CMakeExtension records
    debug,        \* self.debug
    system,       \* platform.system()
    maxsize,      \* sys.maxsize, as little-endian base-2^16 limbs
    executable,   \* sys.executable
    environ,      \* os.environ of the parent process
    inplace,      \* self.inplace of the build_ext command
    fs,           \* directories that exist on disk
    pc,           \* position in CMakeBuild.run
    i,            \* index (1-based) of the extension the for loop is at
    frame,        \* locals of the build_extension call in progress
    calls,        \* log of subprocess invocations, in order
    error         \* the exception that left run(), or NoError

vars == <<extensions, debug, system, maxsize, executable, environ, inplace,
          fs, pc, i, frame, calls, error>>

-----------------------------------------------------------------------------
(* Bounds of the model *)

MaxExts == 2
MaxPathLen == 9
MaxFlags == 1

-----------------------------------------------------------------------------
(* Program constants and fixed surroundings *)

\* setup(version='3.4.1.dev1'); self.distribution.get_version()
Version == "3.4.1.dev1"

\* python_executable[:len(python_executable) - 6]
SuffixLen == 6

\* CMakeExtension(name, sourcedir) declarations: name and sourcedir argument
Declared == {<<"whylogs-sketching", "">>, <<"pkg.mod", "./native">>}

\* setup(package_dir={'':'python'}): the directory of the root package
PackageRoot == "python"

\* sysconfig's EXT_SUFFIX of the interpreter that runs setup.py
ExtSuffix == ".cpython-311-x86_64-linux-gnu.so"

\* os.getcwd() of the setup.py process
Cwd == "/src"

\* self.build_temp and self.build_lib of the build_ext command
build_temp == "build/temp"
build_lib == "build/lib"

\* sys.maxsize of a 32-bit and of a 64-bit interpreter: 2^31-1 and 2^63-1
MaxSize32 == <<65535, 32767>>
MaxSize64 == <<65535, 65535, 65535, 32767>>

\* 2**32
TwoPow32 == <<0, 0, 1>>

BasePath == "/b/python3"
FlagTokens == {"-O2"}

NoError == [type |-> "none", msg |-> ""]
NoFrame == [extdir |-> "", cmake_args |-> <<>>, build_args |-> <<>>,
            env |-> <<>>, entry |-> {}]

-----------------------------------------------------------------------------
(* String helpers: Python str operations *)

Min(a, b) == IF a < b THEN a ELSE b
Max(a, b) == IF a > b THEN a ELSE b

\* s.startswith(p)
StartsWith(s, p) == Len(p) <= Len(s) /\ SubSeq(s, 1, Len(p)) = p

\* s.endswith(p)
EndsWith(s, p) ==
    Len(p) <= Len(s) /\ SubSeq(s, Len(s) - Len(p) + 1, Len(s)) = p

\* sub in s
Contains(s, sub) ==
    \E k \in 1..(Len(s) - Len(sub) + 1) : SubSeq(s, k, k + Len(sub) - 1) = sub

\* s[:stop] with Python's treatment of a negative or too large stop
PySliceTo(s, stop) ==
    LET n == Len(s)
        k == IF stop < 0 THEN Max(stop + n, 0) ELSE Min(stop, n)
    IN  SubSeq(s, 1, k)

LowerLetters == "abcdefghijklmnopqrstuvwxyz"
UpperLetters == "ABCDEFGHIJKLMNOPQRSTUVWXYZ"

UpperChar(c) ==
    IF \E k \in 1..Len(LowerLetters) : SubSeq(LowerLetters, k, k) = c
    THEN LET k == CHOOSE k \in 1..Len(LowerLetters) :
                      SubSeq(LowerLetters, k, k) = c
         IN  SubSeq(UpperLetters, k, k)
    ELSE c

\* s.upper()
RECURSIVE Upper(_)
Upper(s) ==
    IF Len(s) = 0 THEN ""
    ELSE Upper(SubSeq(s, 1, Len(s) - 1)) \o UpperChar(SubSeq(s, Len(s), Len(s)))

\* sep.join(items)
RECURSIVE Join(_, _)
Join(sep, items) ==
    IF Len(items) = 0 THEN ""
    ELSE IF Len(items) = 1 THEN items[1]
    ELSE items[1] \o sep \o Join(sep, Tail(items))

\* s.rstrip('/')
RECURSIVE RStripSlash(_)
RStripSlash(s) ==
    IF Len(s) > 0 /\ SubSeq(s, Len(s), Len(s)) = "/"
    THEN RStripSlash(SubSeq(s, 1, Len(s) - 1))
    ELSE s

\* s.rfind('/') + 1
RFindSlash1(s) ==
    LET hits == {k \in 1..Len(s) : SubSeq(s, k, k) = "/"}
    IN  IF hits = {} THEN 0 ELSE CHOOSE k \in hits : \A j \in hits : j <= k

\* os.path.dirname(p) (posixpath)
Dirname(p) ==
    LET head == SubSeq(p, 1, RFindSlash1(p))
    IN  IF RStripSlash(head) = "" THEN head ELSE RStripSlash(head)

\* the index of the first occurrence of the one-character string c in s, or 0
FindChar(s, c) ==
    LET hits == {k \in 1..Len(s) : SubSeq(s, k, k) = c}
    IN  IF hits = {} THEN 0 ELSE CHOOSE k \in hits : \A j \in hits : k <= j

\* s.split(c) for a one-character separator c
RECURSIVE Split(_, _)
Split(s, c) ==
    LET k == FindChar(s, c)
    IN  IF k = 0 THEN <<s>>
        ELSE <<SubSeq(s, 1, k - 1)>> \o Split(SubSeq(s, k + 1, Len(s)), c)

\* os.path.join(a, b) (posixpath)
PathJoin(a, b) ==
    IF StartsWith(b, "/") THEN b
    ELSE IF a = "" \/ EndsWith(a, "/") THEN a \o b
    ELSE a \o "/" \o b

\* os.path.join(*parts) for a non-empty list
RECURSIVE PathJoinAll(_)
PathJoinAll(parts) ==
    IF Len(parts) = 1 THEN parts[1]
    ELSE PathJoin(PathJoinAll(SubSeq(parts, 1, Len(parts) - 1)),
                  parts[Len(parts)])

\* the loop of normpath over the components, new_comps being the result
RECURSIVE NormComps(_, _, _)
NormComps(comps, new_comps, initial_slashes) ==
    IF Len(comps) = 0 THEN new_comps
    ELSE LET comp == Head(comps)
             rest == Tail(comps)
         IN  IF comp = "" \/ comp = "."
             THEN NormComps(rest, new_comps, initial_slashes)
             ELSE IF \/ comp # ".."
                     \/ (initial_slashes = 0 /\ Len(new_comps) = 0)
                     \/ (Len(new_comps) > 0
                           /\ new_comps[Len(new_comps)] = "..")
             THEN NormComps(rest, Append(new_comps, comp), initial_slashes)
             ELSE IF Len(new_comps) > 0
             THEN NormComps(rest, SubSeq(new_comps, 1, Len(new_comps) - 1),
                            initial_slashes)
             ELSE NormComps(rest, new_comps, initial_slashes)

\* os.path.normpath(path) (posixpath)
Normpath(path) ==
    IF path = "" THEN "."
    ELSE LET initial_slashes ==
                 IF ~ StartsWith(path, "/") THEN 0
                 ELSE IF StartsWith(path, "//") /\ ~ StartsWith(path, "///")
                 THEN 2 ELSE 1
             joined == Join("/", NormComps(Split(path, "/"), <<>>,
                                           initial_slashes))
             result == (IF initial_slashes = 2 THEN "//"
                        ELSE IF initial_slashes = 1 THEN "/" ELSE "")
                           \o joined
         IN  IF result = "" THEN "." ELSE result

\* os.path.abspath(path) (posixpath) in a process whose os.getcwd() is cwd
AbspathIn(path, cwd) ==
    Normpath(IF StartsWith(path, "/") THEN path ELSE PathJoin(cwd, path))

Abspath(path) == AbspathIn(path, Cwd)

\* build_ext.get_ext_filename(ext_name)
GetExtFilename(ext_name, suffix) ==
    PathJoinAll(Split(ext_name, ".")) \o suffix

\* build_py.get_package_dir(package) when package_dir maps at most the root
\* package '' (to root; root = "" stands for no package_dir at all)
GetPackageDir(package, root) ==
    IF root = ""
    THEN PathJoinAll(Split(package, "."))
    ELSE IF package = "" THEN root
    ELSE PathJoinAll(<<root>> \o Split(package, "."))

\* build_ext.get_ext_fullpath(ext_name), self.package being None
GetExtFullpathIn(ext_name, lib, suffix, inpl, root, cwd) ==
    LET modpath == Split(ext_name, ".")
        filename == GetExtFilename(modpath[Len(modpath)], suffix)
        package == Join(".", SubSeq(modpath, 1, Len(modpath) - 1))
    IN  IF ~ inpl
        THEN PathJoin(lib, PathJoinAll(
                 SubSeq(modpath, 1, Len(modpath) - 1) \o <<filename>>))
        ELSE PathJoin(AbspathIn(GetPackageDir(package, root), cwd), filename)

GetExtFullpath(ext_name, inpl) ==
    GetExtFullpathIn(ext_name, build_lib, ExtSuffix, inpl, PackageRoot, Cwd)

-----------------------------------------------------------------------------
(* Arbitrary-size integers as little-endian limbs, for sys.maxsize > 2**32 *)

RECURSIVE BigGt(_, _)
BigGt(a, b) ==
    IF Len(a) # Len(b) THEN Len(a) > Len(b)
    ELSE IF Len(a) = 0 THEN FALSE
    ELSE IF a[Len(a)] # b[Len(b)] THEN a[Len(a)] > b[Len(b)]
    ELSE BigGt(SubSeq(a, 1, Len(a) - 1), SubSeq(b, 1, Len(b) - 1))

-----------------------------------------------------------------------------
(* CMakeExtension.__init__ *)

CMakeExtension(name, sourcedir) ==
    [name |-> name, sourcedir |-> Abspath(sourcedir)]

-----------------------------------------------------------------------------
(* CMakeBuild.run: the message of the RuntimeError *)

RECURSIVE ExtNames(_)
ExtNames(exts) ==
    IF Len(exts) = 0 THEN <<>> ELSE <<exts[1].name>> \o ExtNames(Tail(exts))

ProbeArgv == <<"cmake", "--version">>

\* variant: names only the first extension
ToolchainMissingMsg_FirstOnly(exts) ==
    "CMake >= 3.12 must be installed to build the following extensions: "
        \o (IF Len(exts) = 0 THEN "" ELSE exts[1].name)

ToolchainMissingMsg(exts) ==
    "CMake >= 3.12 must be installed to build the following extensions: "
        \o Join(", ", ExtNames(exts))

-----------------------------------------------------------------------------
(* CMakeBuild.build_extension: derivation of the arguments *)

ExtDirOf(ext, inpl) == Abspath(Dirname(GetExtFullpath(ext.name, inpl)))

ExtDir(ext) == ExtDirOf(ext, inplace)

\* the directories above the absolute path p, up to the root
RECURSIVE Ancestors(_)
Ancestors(p) ==
    IF Dirname(p) = p THEN {}
    ELSE {Dirname(p)} \cup Ancestors(Dirname(p))

\* a directory exists only together with every directory above it:
\* os.makedirs and the tool create missing parents too
WithParents(dirs) ==
    dirs \cup UNION {Ancestors(Abspath(d)) : d \in dirs}

\* the directories build_extension deals with for the declared extensions,
\* and everything above them
AllDirs ==
    WithParents({build_temp}
                    \cup {ExtDir(extensions[k]) : k \in 1..Len(extensions)})

\* the tool leaves what was there and what it created, parents included
ToolCreates(dirs, made) == dirs \cup WithParents(made)

\* variant: passes the directory part instead of the interpreter itself
PythonExecutable_Dir(exe) == Dirname(exe)

PythonExecutable(exe) == "" \o exe

PythonPath(python_executable) ==
    PySliceTo(python_executable, Len(python_executable) - SuffixLen)

\* variant: ignores self.debug
Cfg_AlwaysRelease(dbg) == "Release"

Cfg(dbg) == IF dbg THEN "Debug" ELSE "Release"

\* variant: compares against 2**64
Is64Bit_TwoPow64(ms) == BigGt(ms, <<0, 0, 0, 0, 1>>)

Is64Bit(ms) == BigGt(ms, TwoPow32)

CmakeArgs(extdir, exe, dbg, sys, ms) ==
    LET python_executable == PythonExecutable(exe)
        python_path == PythonPath(python_executable)
        cfg == Cfg(dbg)
        common ==
            << "-DCMAKE_LIBRARY_OUTPUT_DIRECTORY=" \o extdir,
               "-DWITH_PYTHON=True",
               "-DCMAKE_CXX_STANDARD=17",
               "-DPython3_EXECUTABLE=" \o python_executable,
               "-DPython_EXECUTABLE=" \o python_executable,
               "-DPython3_INCLUDE_DIRS=" \o python_path,
               "-DPython_INCLUDE_DIRS=" \o python_path >>
    IN  IF sys = "Windows"
        THEN common
             \o << "-DCMAKE_LIBRARY_OUTPUT_DIRECTORY_" \o Upper(cfg) \o "="
                       \o extdir >>
             \o (IF Is64Bit(ms)
                 THEN << "-T", "host=x64", "-DCMAKE_GENERATOR_PLATFORM=x64" >>
                 ELSE << >>)
        ELSE common \o << "-DCMAKE_BUILD_TYPE=" \o cfg >>

BuildArgs(dbg, sys, ms) ==
    LET cfg == Cfg(dbg)
    IN  IF sys = "Windows"
        THEN << "--config", cfg >>
             \o (IF Is64Bit(ms) THEN << "--", "/m" >> ELSE << >>)
        ELSE << "--config", cfg, "--", "-j2" >>

\* env.get('CXXFLAGS', '')
EnvGet(env, name, default) ==
    IF name \in DOMAIN env THEN env[name] ELSE default

\* variant: overwrites CXXFLAGS instead of appending to it
AugmentEnv_Overwrite(parent, version) ==
    [v \in DOMAIN parent \cup {"CXXFLAGS"} |->
        IF v = "CXXFLAGS"
        THEN " -DVERSION_INFO=\\\"" \o version \o "\\\""
        ELSE parent[v]]

\* env = os.environ.copy(); env['CXXFLAGS'] = '{} -DVERSION_INFO=\\"{}\\"'...
AugmentEnv(parent, version) ==
    LET flags == EnvGet(parent, "CXXFLAGS", "")
                     \o " -DVERSION_INFO=\\\"" \o version \o "\\\""
    IN  [v \in DOMAIN parent \cup {"CXXFLAGS"} |->
            IF v = "CXXFLAGS" THEN flags ELSE parent[v]]

\* if not os.path.exists(self.build_temp): os.makedirs(self.build_temp)
Makedirs(dirs) ==
    IF build_temp \notin dirs
    THEN dirs \cup WithParents({build_temp})
    ELSE dirs

ConfigureArgv(ext, cmake_args) == <<"cmake", ext.sourcedir>> \o cmake_args

BuildArgv(build_args) ==
    <<"cmake", "--build", ".", "--target", "python">> \o build_args

\* the locals of build_extension when it reaches the first check_call
EnterFrame(ext) ==
    [extdir     |-> ExtDir(ext),
     cmake_args |-> CmakeArgs(ExtDir(ext), executable, debug, system, maxsize),
     build_args |-> BuildArgs(debug, system, maxsize),
     env        |-> AugmentEnv(environ, Version),
     entry      |-> fs]

Call(kind, k, argv, cwd, env, dirs, entry, result) ==
    [kind |-> kind, ext |-> k, argv |-> argv, cwd |-> cwd, env |-> env,
     dirs |-> dirs, entry |-> entry, result |-> result]

-----------------------------------------------------------------------------
(* Input domains *)

RECURSIVE SeqsUpTo(_, _)
SeqsUpTo(S, n) ==
    IF n = 0 THEN {<<>>}
    ELSE LET shorter == SeqsUpTo(S, n - 1)
         IN  shorter \cup {Append(q, x) : q \in shorter, x \in S}

RECURSIVE FlagStrings(_)
FlagStrings(n) ==
    IF n = 0 THEN {""}
    ELSE LET shorter == FlagStrings(n - 1)
         IN  shorter \cup {IF f = "" THEN t ELSE f \o " " \o t :
                               f \in shorter, t \in FlagTokens}

Extensions ==
    SeqsUpTo({CMakeExtension(d[1], d[2]) : d \in Declared}, MaxExts)

Executables ==
    {SubSeq(BasePath, 1, n) : n \in 0..Min(MaxPathLen, Len(BasePath))}

Environs ==
    {[PATH |-> "/bin"]}
        \cup {[PATH |-> "/bin", CXXFLAGS |-> f] : f \in FlagStrings(MaxFlags)}

-----------------------------------------------------------------------------
(* The state machine *)

\* run() has not started: nothing invoked, nothing raised
Start ==
    /\ pc = "probe"
    /\ i = 1
    /\ frame = NoFrame
    /\ calls = <<>>
    /\ error = NoError

\* every environment, file system and build mode, one interpreter path
Init ==
    /\ extensions \in Extensions
    /\ debug \in BOOLEAN
    /\ system \in {"Windows", "Linux"}
    /\ maxsize \in {MaxSize32, MaxSize64}
    /\ executable = SubSeq(BasePath, 1, Min(MaxPathLen, Len(BasePath)))
    /\ environ \in Environs
    /\ inplace \in BOOLEAN
    /\ fs \in {d \in SUBSET AllDirs : WithParents(d) = d /\ Cwd \in d}
    /\ Start

\* every interpreter path, one environment and a fresh source tree
InitPaths ==
    /\ extensions \in Extensions
    /\ debug \in BOOLEAN
    /\ system \in {"Windows", "Linux"}
    /\ maxsize \in {MaxSize32, MaxSize64}
    /\ executable \in Executables
    /\ environ = [PATH |-> "/bin"]
    /\ inplace = FALSE
    /\ fs = WithParents({Cwd})
    /\ Start

Inputs ==
    <<extensions, debug, system, maxsize, executable, environ, inplace>>

\* subprocess.check_output(['cmake', '--version']) returns
ProbeOk ==
    /\ pc = "probe"
    /\ calls' = Append(calls,
                  Call("probe", 0, ProbeArgv, "", environ, fs, fs, "ok"))
    /\ pc' = "loop"
    /\ UNCHANGED <<Inputs, fs, i, frame, error>>

\* variant: the handler swallows the OSError and run() carries on
ProbeOSError_Swallowed ==
    /\ pc = "probe"
    /\ calls' = Append(calls,
                  Call("probe", 0, ProbeArgv, "", environ, fs, fs, "OSError"))
    /\ pc' = "loop"
    /\ UNCHANGED <<Inputs, fs, i, frame, error>>

\* ... raises OSError: except OSError: raise RuntimeError(...)
ProbeOSError ==
    /\ pc = "probe"
    /\ calls' = Append(calls,
                  Call("probe", 0, ProbeArgv, "", environ, fs, fs, "OSError"))
    /\ error' = [type |-> "RuntimeError",
                 msg |-> ToolchainMissingMsg(extensions)]
    /\ pc' = "raised"
    /\ UNCHANGED <<Inputs, fs, i, frame>>

\* ... raises CalledProcessError (non-zero exit), which no handler catches
ProbeNonZero ==
    /\ pc = "probe"
    /\ calls' = Append(calls,
                  Call("probe", 0, ProbeArgv, "", environ, fs, fs, "nonzero"))
    /\ error' = [type |-> "CalledProcessError", msg |-> Join(" ", ProbeArgv)]
    /\ pc' = "raised"
    /\ UNCHANGED <<Inputs, fs, i, frame>>

\* build_extension up to and including the configure check_call, exit 0.
\* The external tool may create the output directory.
ConfigureOk ==
    /\ pc = "loop"
    /\ i <= Len(extensions)
    /\ LET f == EnterFrame(extensions[i])
           dirs == Makedirs(fs)
       IN  /\ frame' = f
           /\ calls' = Append(calls,
                         Call("configure", i,
                              ConfigureArgv(extensions[i], f.cmake_args),
                              build_temp, f.env, dirs, f.entry, "ok"))
           /\ \E made \in SUBSET {f.extdir} : fs' = ToolCreates(dirs, made)
    /\ pc' = "configured"
    /\ UNCHANGED <<Inputs, i, error>>

\* variant: subprocess.call instead of check_call, exit status ignored
ConfigureFail_Ignored ==
    /\ pc = "loop"
    /\ i <= Len(extensions)
    /\ LET f == EnterFrame(extensions[i])
           dirs == Makedirs(fs)
       IN  /\ frame' = f
           /\ calls' = Append(calls,
                         Call("configure", i,
                              ConfigureArgv(extensions[i], f.cmake_args),
                              build_temp, f.env, dirs, f.entry, "nonzero"))
           /\ \E made \in SUBSET {f.extdir} : fs' = ToolCreates(dirs, made)
    /\ pc' = "configured"
    /\ UNCHANGED <<Inputs, i, error>>

\* build_extension up to the configure check_call, which exits non-zero;
\* the tool may have created the output directory before it failed
ConfigureFail ==
    /\ pc = "loop"
    /\ i <= Len(extensions)
    /\ LET f == EnterFrame(extensions[i])
           dirs == Makedirs(fs)
       IN  /\ calls' = Append(calls,
                         Call("configure", i,
                              ConfigureArgv(extensions[i], f.cmake_args),
                              build_temp, f.env, dirs, f.entry, "nonzero"))
           /\ error' = [type |-> "CalledProcessError",
                        msg |-> Join(" ",
                            ConfigureArgv(extensions[i], f.cmake_args))]
           /\ \E made \in SUBSET {f.extdir} : fs' = ToolCreates(dirs, made)
    /\ pc' = "raised"
    /\ frame' = NoFrame
    /\ UNCHANGED <<Inputs, i>>

\* the build check_call exits 0; print(); the for loop moves on
BuildOk ==
    /\ pc = "configured"
    /\ calls' = Append(calls,
                  Call("build", i, BuildArgv(frame.build_args),
                       build_temp, frame.env, fs, frame.entry, "ok"))
    /\ \E made \in SUBSET {frame.extdir} : fs' = ToolCreates(fs, made)
    /\ i' = i + 1
    /\ frame' = NoFrame
    /\ pc' = "loop"
    /\ UNCHANGED <<Inputs, error>>

\* variant: a failed build phase is tried again
BuildFail_Retry ==
    /\ pc = "configured"
    /\ calls' = Append(calls,
                  Call("build", i, BuildArgv(frame.build_args),
                       build_temp, frame.env, fs, frame.entry, "nonzero"))
    /\ \E made \in SUBSET {frame.extdir} : fs' = ToolCreates(fs, made)
    /\ UNCHANGED <<Inputs, i, frame, pc, error>>

\* the build check_call exits non-zero, the tool may have created the
\* output directory before it failed
BuildFail ==
    /\ pc = "configured"
    /\ calls' = Append(calls,
                  Call("build", i, BuildArgv(frame.build_args),
                       build_temp, frame.env, fs, frame.entry, "nonzero"))
    /\ error' = [type |-> "CalledProcessError",
                 msg |-> Join(" ", BuildArgv(frame.build_args))]
    /\ \E made \in SUBSET {frame.extdir} : fs' = ToolCreates(fs, made)
    /\ frame' = NoFrame
    /\ pc' = "raised"
    /\ UNCHANGED <<Inputs, i>>

\* for ext in self.extensions: exhausted, run() returns
Finish ==
    /\ pc = "loop"
    /\ i > Len(extensions)
    /\ pc' = "done"
    /\ UNCHANGED <<Inputs, fs, i, frame, calls, error>>

Next ==
    \/ ProbeOk
    \/ ProbeOSError
    \/ ProbeNonZero
    \/ ConfigureOk
    \/ ConfigureFail
    \/ BuildOk
    \/ BuildFail
    \/ Finish

Spec == Init /\ [][Next]_vars

SpecPaths == InitPaths /\ [][Next]_vars

TypeOK ==
    /\ pc \in {"probe", "loop", "configured", "done", "raised"}
    /\ i \in 1..(Len(extensions) + 1)
    /\ fs \subseteq AllDirs
    /\ WithParents(fs) = fs
    /\ Cwd \in fs
    /\ (pc = "raised") = (error # NoError)

-----------------------------------------------------------------------------
(* Reading the invocation log *)

CallIdx == 1..Len(calls)

PhaseIdx == {n \in CallIdx : calls[n].kind \in {"configure", "build"}}

CallsOf(kind, k) ==
    {n \in CallIdx : calls[n].kind = kind /\ calls[n].ext = k}

\* the values given to the variable whose "-D<name>=" prefix is given
ArgValues(argv, prefix) ==
    {SubSeq(argv[n], Len(prefix) + 1, Len(argv[n])) :
        n \in {m \in 1..Len(argv) : StartsWith(argv[m], prefix)}}

ArgCount(argv, prefix) ==
    Cardinality({m \in 1..Len(argv) : StartsWith(argv[m], prefix)})

HasArg(argv, a) == \E n \in 1..Len(argv) : argv[n] = a

HasPair(argv, a, b) ==
    \E n \in 1..(Len(argv) - 1) : argv[n] = a /\ argv[n + 1] = b

ModeLabel == IF debug THEN "Debug" ELSE "Release"

UpperModeLabel == IF debug THEN "DEBUG" ELSE "RELEASE"

VersionDef == " -DVERSION_INFO=\\\"3.4.1.dev1\\\""

ProbeFailed ==
    \E n \in CallIdx : calls[n].kind = "probe" /\ calls[n].result # "ok"

-----------------------------------------------------------------------------
(* C1: when the cmake --version probe fails (OSError or non-zero exit),    *)
(* run() ends with an error and no configure and no build invocation is    *)
(* ever made for any extension.                                            *)
C1_ProbeFailureBuildsNothing ==
    ProbeFailed =>
        /\ pc = "raised"
        /\ PhaseIdx = {}
        /\ frame = NoFrame

C1_Witness ==
    /\ ProbeFailed
    /\ Len(extensions) >= 2

(* C2: a non-zero exit of the configure or the build invocation leaves    *)
(* run() with a CalledProcessError and nothing is invoked after it; when   *)
(* the configure phase failed, no build invocation exists for that target.*)
C2_PhaseFailureSurfaces ==
    \A n \in PhaseIdx :
        calls[n].result = "nonzero" =>
            /\ pc = "raised"
            /\ error.type = "CalledProcessError"
            /\ n = Len(calls)
            /\ (calls[n].kind = "configure" =>
                    CallsOf("build", calls[n].ext) = {})

C2_Witness ==
    \E n \in PhaseIdx :
        /\ calls[n].kind = "configure"
        /\ calls[n].result = "nonzero"
        /\ calls[n].ext < Len(extensions)

(* C3: the probe is the first invocation and the only probe; every target *)
(* gets at most one configure and at most one build invocation, and a      *)
(* build invocation directly follows the successful configure invocation  *)
(* of the same target.                                                     *)
C3_ProbeOnceThenOrderedPhases ==
    /\ (pc # "probe") = (Len(calls) >= 1)
    /\ \A n \in CallIdx : (calls[n].kind = "probe") = (n = 1)
    /\ \A k \in 1..Len(extensions) :
        /\ Cardinality(CallsOf("configure", k)) <= 1
        /\ Cardinality(CallsOf("build", k)) <= 1
        /\ \A b \in CallsOf("build", k) :
            /\ b - 1 \in CallsOf("configure", k)
            /\ calls[b - 1].result = "ok"
    /\ \A n \in PhaseIdx : calls[n].ext \in 1..Len(extensions)
    /\ \A m, n \in PhaseIdx : m < n => calls[m].ext <= calls[n].ext

C3_Witness ==
    /\ pc = "done"
    /\ Len(extensions) >= 2
    /\ Len(calls) = 1 + 2 * Len(extensions)

(* C4: the output directory extdir exists whenever the external tool is   *)
(* invoked for the configure or the build phase of a target, and so also  *)
(* right after a successful build phase.                                  *)
C4_OutputDirExistsAtInvocation ==
    \A n \in PhaseIdx :
        LET extdir == ExtDir(extensions[calls[n].ext])
        IN  /\ extdir \in calls[n].dirs
            /\ (calls[n].kind = "build" /\ calls[n].result = "ok"
                  /\ n = Len(calls)) => extdir \in fs

(* C5: when the probe invocation cannot be executed (OSError), run() ends *)
(* with the RuntimeError "CMake >= 3.12 must be installed ..." whose      *)
(* message contains the name of every declared extension.                 *)
C5_ToolchainMissingNamesAll ==
    (\E n \in CallIdx : calls[n].kind = "probe" /\ calls[n].result = "OSError")
        =>
        /\ pc = "raised"
        /\ error.type = "RuntimeError"
        /\ StartsWith(error.msg, "CMake >= 3.12 must be installed")
        /\ \A k \in 1..Len(extensions) :
               Contains(error.msg, extensions[k].name)

C5_Witness ==
    /\ \E n \in CallIdx : calls[n].result = "OSError"
    /\ Len(extensions) >= 2
    /\ extensions[1].name # extensions[2].name

(* C6: the environment of both phases has the parent's variables plus     *)
(* CXXFLAGS, agrees with the parent on every other variable, and its      *)
(* CXXFLAGS is the parent's value (empty if unset) followed by the        *)
(* version definition; both phases of a target get the same environment;  *)
(* the parent's os.environ never changes.                                 *)
C6_EnvInv ==
    \A n \in PhaseIdx :
        LET env == calls[n].env
            old == IF "CXXFLAGS" \in DOMAIN environ
                   THEN environ["CXXFLAGS"] ELSE ""
        IN  /\ DOMAIN env = DOMAIN environ \cup {"CXXFLAGS"}
            /\ \A v \in DOMAIN environ \ {"CXXFLAGS"} : env[v] = environ[v]
            /\ StartsWith(env["CXXFLAGS"], old)
            /\ EndsWith(env["CXXFLAGS"], VersionDef)
            /\ Len(env["CXXFLAGS"]) = Len(old) + Len(VersionDef)
            /\ (calls[n].kind = "build" => env = calls[n - 1].env)

C6_EnvironmentAugmented ==
    [] C6_EnvInv /\ [][environ' = environ]_vars

C6_Witness ==
    /\ "CXXFLAGS" \in DOMAIN environ
    /\ environ["CXXFLAGS"] # ""
    /\ \E n \in PhaseIdx : calls[n].kind = "build" /\ calls[n].ext >= 2

(* C7: the configure invocation carries sys.executable unchanged as the   *)
(* one value of Python3_EXECUTABLE and as the one value of                *)
(* Python_EXECUTABLE.                                                     *)
C7_InterpreterPathIdentical ==
    \A n \in PhaseIdx :
        calls[n].kind = "configure" =>
            /\ ArgValues(calls[n].argv, "-DPython3_EXECUTABLE=") = {executable}
            /\ ArgValues(calls[n].argv, "-DPython_EXECUTABLE=") = {executable}
            /\ ArgCount(calls[n].argv, "-DPython3_EXECUTABLE=") = 1
            /\ ArgCount(calls[n].argv, "-DPython_EXECUTABLE=") = 1

C7_Witness ==
    /\ Len(executable) > SuffixLen
    /\ \E n \in PhaseIdx : calls[n].kind = "configure"

(* C8: on Windows, in either mode, -T host=x64 and                        *)
(* -DCMAKE_GENERATOR_PLATFORM=x64 are configure arguments and /m is a     *)
(* build argument exactly when sys.maxsize is that of a 64-bit host; the  *)
(* configure arguments always carry                                       *)
(* CMAKE_LIBRARY_OUTPUT_DIRECTORY_<MODE> with the value of                *)
(* CMAKE_LIBRARY_OUTPUT_DIRECTORY.                                        *)
C8_WindowsArguments ==
    system = "Windows" =>
        \A n \in PhaseIdx :
            LET a == calls[n].argv
                is64 == (maxsize = MaxSize64)
            IN  /\ (calls[n].kind = "configure" =>
                      /\ HasPair(a, "-T", "host=x64") = is64
                      /\ HasArg(a, "-T") = is64
                      /\ HasArg(a, "host=x64") = is64
                      /\ HasArg(a, "-DCMAKE_GENERATOR_PLATFORM=x64") = is64
                      /\ (ArgCount(a, "-DCMAKE_GENERATOR_PLATFORM") = 1) = is64
                      /\ ArgCount(a, "-DCMAKE_LIBRARY_OUTPUT_DIRECTORY_"
                                        \o UpperModeLabel \o "=") = 1
                      /\ ArgCount(a, "-DCMAKE_LIBRARY_OUTPUT_DIRECTORY=") = 1
                      /\ ArgValues(a, "-DCMAKE_LIBRARY_OUTPUT_DIRECTORY_"
                                        \o UpperModeLabel \o "=")
                           = ArgValues(a, "-DCMAKE_LIBRARY_OUTPUT_DIRECTORY="))
                /\ (calls[n].kind = "build" => HasArg(a, "/m") = is64)

C8_Witness ==
    /\ system = "Windows"
    /\ maxsize = MaxSize64
    /\ debug
    /\ \E n \in PhaseIdx : calls[n].kind = "build" /\ calls[n].result = "ok"

(* C9: off Windows, a target whose build phase succeeded was configured   *)
(* exactly once, with exactly one CMAKE_BUILD_TYPE equal to the mode      *)
(* label and neither a parallelism flag nor a Windows-only selector, and  *)
(* built exactly once with --target python, --config <mode label> and a   *)
(* final -j2.                                                             *)
C9_NonWindowsArguments ==
    system # "Windows" =>
        \A b \in PhaseIdx :
            (calls[b].kind = "build" /\ calls[b].result = "ok") =>
                LET k == calls[b].ext
                    ba == calls[b].argv
                IN  /\ Cardinality(CallsOf("build", k)) = 1
                    /\ Cardinality(CallsOf("configure", k)) = 1
                    /\ SubSeq(ba, 1, 2) = <<"cmake", "--build">>
                    /\ HasPair(ba, "--target", "python")
                    /\ HasPair(ba, "--config", ModeLabel)
                    /\ ba[Len(ba)] = "-j2"
                    /\ \A c \in CallsOf("configure", k) :
                        LET ca == calls[c].argv
                        IN  /\ ArgCount(ca, "-DCMAKE_BUILD_TYPE=") = 1
                            /\ ArgValues(ca, "-DCMAKE_BUILD_TYPE=")
                                 = {ModeLabel}
                            /\ ~ HasArg(ca, "-j2")
                            /\ ~ HasArg(ca, "/m")
                            /\ ~ HasArg(ca, "--")
                            /\ ~ HasArg(ca, "-T")
                            /\ ~ HasArg(ca, "host=x64")
                            /\ ArgCount(ca, "-DCMAKE_GENERATOR_PLATFORM") = 0
                            /\ ArgCount(ca,
                                   "-DCMAKE_LIBRARY_OUTPUT_DIRECTORY_") = 0

C9_Witness ==
    /\ system = "Linux"
    /\ debug
    /\ pc = "done"
    /\ Len(extensions) >= 1

(* C10 as stated: the include-directory value of the configure phase,     *)
(* under both variable names, is the prefix of sys.executable of length   *)
(* max(0, len - 6), also for paths shorter than 6 characters.             *)
C10_IncludeDirStripsSuffix ==
    \A n \in PhaseIdx :
        calls[n].kind = "configure" =>
            LET want == SubSeq(executable, 1,
                               Max(0, Len(executable) - SuffixLen))
            IN  /\ ArgValues(calls[n].argv, "-DPython3_INCLUDE_DIRS=") = {want}
                /\ ArgValues(calls[n].argv, "-DPython_INCLUDE_DIRS=") = {want}

====
